---- MODULE Spec2Model ----
(***************************************************************************)
(* HanziMaster TTS service (src/main.py): the pinyin normaliser            *)
(* pinyin_to_sapi, the SSML builder build_ssml and the /synthesize         *)
(* handler.                                                                *)
(*                                                                         *)
(* A Python str is modelled as the sequence of its code points, so that    *)
(* "xi\u00e8 4" is <<120, 105, 232, 32, 52>> and the empty str is <<>>.     *)
(* Str writes such a sequence from printable ASCII characters.             *)
(*                                                                         *)
(* The character classes of str (lower, isalpha, isdigit, strip) are       *)
(* tabulated for all code points 0 .. 1114111 as sorted tables of ranges,  *)
(* as CPython 3.11 (Unicode 14.0.0) has them.                              *)
(***************************************************************************)
EXTENDS Integers, Sequences, FiniteSets, TLC

\* ------------------------------------------------------------------------
\* Bounds of the model
\* ------------------------------------------------------------------------
MaxHintLen == 4
MaxReqHintLen == 2
MaxTextLen == 3

\* ------------------------------------------------------------------------
\* Characters
\* ------------------------------------------------------------------------
\* the printable ASCII characters from the space to the underscore (code
\* points 32 .. 95) and from a to the tilde (97 .. 126)
AsciiLow ==
    <<" ", "!", "\"", "#", "$", "%", "&", "'", "(", ")", "*", "+", ",", "-", ".", "/",
      "0", "1", "2", "3", "4", "5", "6", "7", "8", "9", ":", ";", "<", "=", ">", "?",
      "@", "A", "B", "C", "D", "E", "F", "G", "H", "I", "J", "K", "L", "M", "N", "O",
      "P", "Q", "R", "S", "T", "U", "V", "W", "X", "Y", "Z", "[", "\\", "]", "^", "_">>

AsciiHigh ==
    <<"a", "b", "c", "d", "e", "f", "g", "h", "i", "j", "k", "l", "m", "n", "o", "p",
      "q", "r", "s", "t", "u", "v", "w", "x", "y", "z", "{", "|", "}", "~">>

\* ord(ch) of a line feed or a printable ASCII character
Ord(ch) ==
    IF ch = "\n" THEN 10
    ELSE IF \E i \in DOMAIN AsciiLow : AsciiLow[i] = ch
    THEN 31 + (CHOOSE i \in DOMAIN AsciiLow : AsciiLow[i] = ch)
    ELSE 96 + (CHOOSE i \in DOMAIN AsciiHigh : AsciiHigh[i] = ch)

\* the str whose characters are the elements of chars
Str(chars) == [i \in DOMAIN chars |-> Ord(chars[i])]

Range(s) == {s[i] : i \in DOMAIN s}

RECURSIVE Find(_, _, _, _)
\* the index among t[lo .. hi] of the range of the sorted table t that holds
\* c, 0 if there is none
Find(t, c, lo, hi) ==
    IF lo > hi THEN 0
    ELSE LET mid == (lo + hi) \div 2
         IN IF c < t[mid][1] THEN Find(t, c, lo, mid - 1)
            ELSE IF c > t[mid][2] THEN Find(t, c, mid + 1, hi)
            ELSE mid

InRanges(t, c) == Find(t, c, 1, Len(t)) # 0

\* the ranges <<first, last>> of the characters of which str.isalpha() is true
AlphaRanges ==
  <<
    <<65, 90>>, <<97, 122>>, <<170, 170>>, <<181, 181>>, <<186, 186>>, <<192, 214>>,
    <<216, 246>>, <<248, 705>>, <<710, 721>>, <<736, 740>>, <<748, 748>>, <<750, 750>>,
    <<880, 884>>, <<886, 887>>, <<890, 893>>, <<895, 895>>, <<902, 902>>, <<904, 906>>,
    <<908, 908>>, <<910, 929>>, <<931, 1013>>, <<1015, 1153>>, <<1162, 1327>>, <<1329, 1366>>,
    <<1369, 1369>>, <<1376, 1416>>, <<1488, 1514>>, <<1519, 1522>>, <<1568, 1610>>, <<1646, 1647>>,
    <<1649, 1747>>, <<1749, 1749>>, <<1765, 1766>>, <<1774, 1775>>, <<1786, 1788>>, <<1791, 1791>>,
    <<1808, 1808>>, <<1810, 1839>>, <<1869, 1957>>, <<1969, 1969>>, <<1994, 2026>>, <<2036, 2037>>,
    <<2042, 2042>>, <<2048, 2069>>, <<2074, 2074>>, <<2084, 2084>>, <<2088, 2088>>, <<2112, 2136>>,
    <<2144, 2154>>, <<2160, 2183>>, <<2185, 2190>>, <<2208, 2249>>, <<2308, 2361>>, <<2365, 2365>>,
    <<2384, 2384>>, <<2392, 2401>>, <<2417, 2432>>, <<2437, 2444>>, <<2447, 2448>>, <<2451, 2472>>,
    <<2474, 2480>>, <<2482, 2482>>, <<2486, 2489>>, <<2493, 2493>>, <<2510, 2510>>, <<2524, 2525>>,
    <<2527, 2529>>, <<2544, 2545>>, <<2556, 2556>>, <<2565, 2570>>, <<2575, 2576>>, <<2579, 2600>>,
    <<2602, 2608>>, <<2610, 2611>>, <<2613, 2614>>, <<2616, 2617>>, <<2649, 2652>>, <<2654, 2654>>,
    <<2674, 2676>>, <<2693, 2701>>, <<2703, 2705>>, <<2707, 2728>>, <<2730, 2736>>, <<2738, 2739>>,
    <<2741, 2745>>, <<2749, 2749>>, <<2768, 2768>>, <<2784, 2785>>, <<2809, 2809>>, <<2821, 2828>>,
    <<2831, 2832>>, <<2835, 2856>>, <<2858, 2864>>, <<2866, 2867>>, <<2869, 2873>>, <<2877, 2877>>,
    <<2908, 2909>>, <<2911, 2913>>, <<2929, 2929>>, <<2947, 2947>>, <<2949, 2954>>, <<2958, 2960>>,
    <<2962, 2965>>, <<2969, 2970>>, <<2972, 2972>>, <<2974, 2975>>, <<2979, 2980>>, <<2984, 2986>>,
    <<2990, 3001>>, <<3024, 3024>>, <<3077, 3084>>, <<3086, 3088>>, <<3090, 3112>>, <<3114, 3129>>,
    <<3133, 3133>>, <<3160, 3162>>, <<3165, 3165>>, <<3168, 3169>>, <<3200, 3200>>, <<3205, 3212>>,
    <<3214, 3216>>, <<3218, 3240>>, <<3242, 3251>>, <<3253, 3257>>, <<3261, 3261>>, <<3293, 3294>>,
    <<3296, 3297>>, <<3313, 3314>>, <<3332, 3340>>, <<3342, 3344>>, <<3346, 3386>>, <<3389, 3389>>,
    <<3406, 3406>>, <<3412, 3414>>, <<3423, 3425>>, <<3450, 3455>>, <<3461, 3478>>, <<3482, 3505>>,
    <<3507, 3515>>, <<3517, 3517>>, <<3520, 3526>>, <<3585, 3632>>, <<3634, 3635>>, <<3648, 3654>>,
    <<3713, 3714>>, <<3716, 3716>>, <<3718, 3722>>, <<3724, 3747>>, <<3749, 3749>>, <<3751, 3760>>,
    <<3762, 3763>>, <<3773, 3773>>, <<3776, 3780>>, <<3782, 3782>>, <<3804, 3807>>, <<3840, 3840>>,
    <<3904, 3911>>, <<3913, 3948>>, <<3976, 3980>>, <<4096, 4138>>, <<4159, 4159>>, <<4176, 4181>>,
    <<4186, 4189>>, <<4193, 4193>>, <<4197, 4198>>, <<4206, 4208>>, <<4213, 4225>>, <<4238, 4238>>,
    <<4256, 4293>>, <<4295, 4295>>, <<4301, 4301>>, <<4304, 4346>>, <<4348, 4680>>, <<4682, 4685>>,
    <<4688, 4694>>, <<4696, 4696>>, <<4698, 4701>>, <<4704, 4744>>, <<4746, 4749>>, <<4752, 4784>>,
    <<4786, 4789>>, <<4792, 4798>>, <<4800, 4800>>, <<4802, 4805>>, <<4808, 4822>>, <<4824, 4880>>,
    <<4882, 4885>>, <<4888, 4954>>, <<4992, 5007>>, <<5024, 5109>>, <<5112, 5117>>, <<5121, 5740>>,
    <<5743, 5759>>, <<5761, 5786>>, <<5792, 5866>>, <<5873, 5880>>, <<5888, 5905>>, <<5919, 5937>>,
    <<5952, 5969>>, <<5984, 5996>>, <<5998, 6000>>, <<6016, 6067>>, <<6103, 6103>>, <<6108, 6108>>,
    <<6176, 6264>>, <<6272, 6276>>, <<6279, 6312>>, <<6314, 6314>>, <<6320, 6389>>, <<6400, 6430>>,
    <<6480, 6509>>, <<6512, 6516>>, <<6528, 6571>>, <<6576, 6601>>, <<6656, 6678>>, <<6688, 6740>>,
    <<6823, 6823>>, <<6917, 6963>>, <<6981, 6988>>, <<7043, 7072>>, <<7086, 7087>>, <<7098, 7141>>,
    <<7168, 7203>>, <<7245, 7247>>, <<7258, 7293>>, <<7296, 7304>>, <<7312, 7354>>, <<7357, 7359>>,
    <<7401, 7404>>, <<7406, 7411>>, <<7413, 7414>>, <<7418, 7418>>, <<7424, 7615>>, <<7680, 7957>>,
    <<7960, 7965>>, <<7968, 8005>>, <<8008, 8013>>, <<8016, 8023>>, <<8025, 8025>>, <<8027, 8027>>,
    <<8029, 8029>>, <<8031, 8061>>, <<8064, 8116>>, <<8118, 8124>>, <<8126, 8126>>, <<8130, 8132>>,
    <<8134, 8140>>, <<8144, 8147>>, <<8150, 8155>>, <<8160, 8172>>, <<8178, 8180>>, <<8182, 8188>>,
    <<8305, 8305>>, <<8319, 8319>>, <<8336, 8348>>, <<8450, 8450>>, <<8455, 8455>>, <<8458, 8467>>,
    <<8469, 8469>>, <<8473, 8477>>, <<8484, 8484>>, <<8486, 8486>>, <<8488, 8488>>, <<8490, 8493>>,
    <<8495, 8505>>, <<8508, 8511>>, <<8517, 8521>>, <<8526, 8526>>, <<8579, 8580>>, <<11264, 11492>>,
    <<11499, 11502>>, <<11506, 11507>>, <<11520, 11557>>, <<11559, 11559>>, <<11565, 11565>>, <<11568, 11623>>,
    <<11631, 11631>>, <<11648, 11670>>, <<11680, 11686>>, <<11688, 11694>>, <<11696, 11702>>, <<11704, 11710>>,
    <<11712, 11718>>, <<11720, 11726>>, <<11728, 11734>>, <<11736, 11742>>, <<11823, 11823>>, <<12293, 12294>>,
    <<12337, 12341>>, <<12347, 12348>>, <<12353, 12438>>, <<12445, 12447>>, <<12449, 12538>>, <<12540, 12543>>,
    <<12549, 12591>>, <<12593, 12686>>, <<12704, 12735>>, <<12784, 12799>>, <<13312, 19903>>, <<19968, 42124>>,
    <<42192, 42237>>, <<42240, 42508>>, <<42512, 42527>>, <<42538, 42539>>, <<42560, 42606>>, <<42623, 42653>>,
    <<42656, 42725>>, <<42775, 42783>>, <<42786, 42888>>, <<42891, 42954>>, <<42960, 42961>>, <<42963, 42963>>,
    <<42965, 42969>>, <<42994, 43009>>, <<43011, 43013>>, <<43015, 43018>>, <<43020, 43042>>, <<43072, 43123>>,
    <<43138, 43187>>, <<43250, 43255>>, <<43259, 43259>>, <<43261, 43262>>, <<43274, 43301>>, <<43312, 43334>>,
    <<43360, 43388>>, <<43396, 43442>>, <<43471, 43471>>, <<43488, 43492>>, <<43494, 43503>>, <<43514, 43518>>,
    <<43520, 43560>>, <<43584, 43586>>, <<43588, 43595>>, <<43616, 43638>>, <<43642, 43642>>, <<43646, 43695>>,
    <<43697, 43697>>, <<43701, 43702>>, <<43705, 43709>>, <<43712, 43712>>, <<43714, 43714>>, <<43739, 43741>>,
    <<43744, 43754>>, <<43762, 43764>>, <<43777, 43782>>, <<43785, 43790>>, <<43793, 43798>>, <<43808, 43814>>,
    <<43816, 43822>>, <<43824, 43866>>, <<43868, 43881>>, <<43888, 44002>>, <<44032, 55203>>, <<55216, 55238>>,
    <<55243, 55291>>, <<63744, 64109>>, <<64112, 64217>>, <<64256, 64262>>, <<64275, 64279>>, <<64285, 64285>>,
    <<64287, 64296>>, <<64298, 64310>>, <<64312, 64316>>, <<64318, 64318>>, <<64320, 64321>>, <<64323, 64324>>,
    <<64326, 64433>>, <<64467, 64829>>, <<64848, 64911>>, <<64914, 64967>>, <<65008, 65019>>, <<65136, 65140>>,
    <<65142, 65276>>, <<65313, 65338>>, <<65345, 65370>>, <<65382, 65470>>, <<65474, 65479>>, <<65482, 65487>>,
    <<65490, 65495>>, <<65498, 65500>>, <<65536, 65547>>, <<65549, 65574>>, <<65576, 65594>>, <<65596, 65597>>,
    <<65599, 65613>>, <<65616, 65629>>, <<65664, 65786>>, <<66176, 66204>>, <<66208, 66256>>, <<66304, 66335>>,
    <<66349, 66368>>, <<66370, 66377>>, <<66384, 66421>>, <<66432, 66461>>, <<66464, 66499>>, <<66504, 66511>>,
    <<66560, 66717>>, <<66736, 66771>>, <<66776, 66811>>, <<66816, 66855>>, <<66864, 66915>>, <<66928, 66938>>,
    <<66940, 66954>>, <<66956, 66962>>, <<66964, 66965>>, <<66967, 66977>>, <<66979, 66993>>, <<66995, 67001>>,
    <<67003, 67004>>, <<67072, 67382>>, <<67392, 67413>>, <<67424, 67431>>, <<67456, 67461>>, <<67463, 67504>>,
    <<67506, 67514>>, <<67584, 67589>>, <<67592, 67592>>, <<67594, 67637>>, <<67639, 67640>>, <<67644, 67644>>,
    <<67647, 67669>>, <<67680, 67702>>, <<67712, 67742>>, <<67808, 67826>>, <<67828, 67829>>, <<67840, 67861>>,
    <<67872, 67897>>, <<67968, 68023>>, <<68030, 68031>>, <<68096, 68096>>, <<68112, 68115>>, <<68117, 68119>>,
    <<68121, 68149>>, <<68192, 68220>>, <<68224, 68252>>, <<68288, 68295>>, <<68297, 68324>>, <<68352, 68405>>,
    <<68416, 68437>>, <<68448, 68466>>, <<68480, 68497>>, <<68608, 68680>>, <<68736, 68786>>, <<68800, 68850>>,
    <<68864, 68899>>, <<69248, 69289>>, <<69296, 69297>>, <<69376, 69404>>, <<69415, 69415>>, <<69424, 69445>>,
    <<69488, 69505>>, <<69552, 69572>>, <<69600, 69622>>, <<69635, 69687>>, <<69745, 69746>>, <<69749, 69749>>,
    <<69763, 69807>>, <<69840, 69864>>, <<69891, 69926>>, <<69956, 69956>>, <<69959, 69959>>, <<69968, 70002>>,
    <<70006, 70006>>, <<70019, 70066>>, <<70081, 70084>>, <<70106, 70106>>, <<70108, 70108>>, <<70144, 70161>>,
    <<70163, 70187>>, <<70272, 70278>>, <<70280, 70280>>, <<70282, 70285>>, <<70287, 70301>>, <<70303, 70312>>,
    <<70320, 70366>>, <<70405, 70412>>, <<70415, 70416>>, <<70419, 70440>>, <<70442, 70448>>, <<70450, 70451>>,
    <<70453, 70457>>, <<70461, 70461>>, <<70480, 70480>>, <<70493, 70497>>, <<70656, 70708>>, <<70727, 70730>>,
    <<70751, 70753>>, <<70784, 70831>>, <<70852, 70853>>, <<70855, 70855>>, <<71040, 71086>>, <<71128, 71131>>,
    <<71168, 71215>>, <<71236, 71236>>, <<71296, 71338>>, <<71352, 71352>>, <<71424, 71450>>, <<71488, 71494>>,
    <<71680, 71723>>, <<71840, 71903>>, <<71935, 71942>>, <<71945, 71945>>, <<71948, 71955>>, <<71957, 71958>>,
    <<71960, 71983>>, <<71999, 71999>>, <<72001, 72001>>, <<72096, 72103>>, <<72106, 72144>>, <<72161, 72161>>,
    <<72163, 72163>>, <<72192, 72192>>, <<72203, 72242>>, <<72250, 72250>>, <<72272, 72272>>, <<72284, 72329>>,
    <<72349, 72349>>, <<72368, 72440>>, <<72704, 72712>>, <<72714, 72750>>, <<72768, 72768>>, <<72818, 72847>>,
    <<72960, 72966>>, <<72968, 72969>>, <<72971, 73008>>, <<73030, 73030>>, <<73056, 73061>>, <<73063, 73064>>,
    <<73066, 73097>>, <<73112, 73112>>, <<73440, 73458>>, <<73648, 73648>>, <<73728, 74649>>, <<74880, 75075>>,
    <<77712, 77808>>, <<77824, 78894>>, <<82944, 83526>>, <<92160, 92728>>, <<92736, 92766>>, <<92784, 92862>>,
    <<92880, 92909>>, <<92928, 92975>>, <<92992, 92995>>, <<93027, 93047>>, <<93053, 93071>>, <<93760, 93823>>,
    <<93952, 94026>>, <<94032, 94032>>, <<94099, 94111>>, <<94176, 94177>>, <<94179, 94179>>, <<94208, 100343>>,
    <<100352, 101589>>, <<101632, 101640>>, <<110576, 110579>>, <<110581, 110587>>, <<110589, 110590>>, <<110592, 110882>>,
    <<110928, 110930>>, <<110948, 110951>>, <<110960, 111355>>, <<113664, 113770>>, <<113776, 113788>>, <<113792, 113800>>,
    <<113808, 113817>>, <<119808, 119892>>, <<119894, 119964>>, <<119966, 119967>>, <<119970, 119970>>, <<119973, 119974>>,
    <<119977, 119980>>, <<119982, 119993>>, <<119995, 119995>>, <<119997, 120003>>, <<120005, 120069>>, <<120071, 120074>>,
    <<120077, 120084>>, <<120086, 120092>>, <<120094, 120121>>, <<120123, 120126>>, <<120128, 120132>>, <<120134, 120134>>,
    <<120138, 120144>>, <<120146, 120485>>, <<120488, 120512>>, <<120514, 120538>>, <<120540, 120570>>, <<120572, 120596>>,
    <<120598, 120628>>, <<120630, 120654>>, <<120656, 120686>>, <<120688, 120712>>, <<120714, 120744>>, <<120746, 120770>>,
    <<120772, 120779>>, <<122624, 122654>>, <<123136, 123180>>, <<123191, 123197>>, <<123214, 123214>>, <<123536, 123565>>,
    <<123584, 123627>>, <<124896, 124902>>, <<124904, 124907>>, <<124909, 124910>>, <<124912, 124926>>, <<124928, 125124>>,
    <<125184, 125251>>, <<125259, 125259>>, <<126464, 126467>>, <<126469, 126495>>, <<126497, 126498>>, <<126500, 126500>>,
    <<126503, 126503>>, <<126505, 126514>>, <<126516, 126519>>, <<126521, 126521>>, <<126523, 126523>>, <<126530, 126530>>,
    <<126535, 126535>>, <<126537, 126537>>, <<126539, 126539>>, <<126541, 126543>>, <<126545, 126546>>, <<126548, 126548>>,
    <<126551, 126551>>, <<126553, 126553>>, <<126555, 126555>>, <<126557, 126557>>, <<126559, 126559>>, <<126561, 126562>>,
    <<126564, 126564>>, <<126567, 126570>>, <<126572, 126578>>, <<126580, 126583>>, <<126585, 126588>>, <<126590, 126590>>,
    <<126592, 126601>>, <<126603, 126619>>, <<126625, 126627>>, <<126629, 126633>>, <<126635, 126651>>, <<131072, 173791>>,
    <<173824, 177976>>, <<177984, 178205>>, <<178208, 183969>>, <<183984, 191456>>, <<194560, 195101>>, <<196608, 201546>>
  >>

\* the ranges of the characters of which str.isdigit() is true
DigitRanges ==
  <<
    <<48, 57>>, <<178, 179>>, <<185, 185>>, <<1632, 1641>>, <<1776, 1785>>, <<1984, 1993>>,
    <<2406, 2415>>, <<2534, 2543>>, <<2662, 2671>>, <<2790, 2799>>, <<2918, 2927>>, <<3046, 3055>>,
    <<3174, 3183>>, <<3302, 3311>>, <<3430, 3439>>, <<3558, 3567>>, <<3664, 3673>>, <<3792, 3801>>,
    <<3872, 3881>>, <<4160, 4169>>, <<4240, 4249>>, <<4969, 4977>>, <<6112, 6121>>, <<6160, 6169>>,
    <<6470, 6479>>, <<6608, 6618>>, <<6784, 6793>>, <<6800, 6809>>, <<6992, 7001>>, <<7088, 7097>>,
    <<7232, 7241>>, <<7248, 7257>>, <<8304, 8304>>, <<8308, 8313>>, <<8320, 8329>>, <<9312, 9320>>,
    <<9332, 9340>>, <<9352, 9360>>, <<9450, 9450>>, <<9461, 9469>>, <<9471, 9471>>, <<10102, 10110>>,
    <<10112, 10120>>, <<10122, 10130>>, <<42528, 42537>>, <<43216, 43225>>, <<43264, 43273>>, <<43472, 43481>>,
    <<43504, 43513>>, <<43600, 43609>>, <<44016, 44025>>, <<65296, 65305>>, <<66720, 66729>>, <<68160, 68163>>,
    <<68912, 68921>>, <<69216, 69224>>, <<69714, 69722>>, <<69734, 69743>>, <<69872, 69881>>, <<69942, 69951>>,
    <<70096, 70105>>, <<70384, 70393>>, <<70736, 70745>>, <<70864, 70873>>, <<71248, 71257>>, <<71360, 71369>>,
    <<71472, 71481>>, <<71904, 71913>>, <<72016, 72025>>, <<72784, 72793>>, <<73040, 73049>>, <<73120, 73129>>,
    <<92768, 92777>>, <<92864, 92873>>, <<93008, 93017>>, <<120782, 120831>>, <<123200, 123209>>, <<123632, 123641>>,
    <<125264, 125273>>, <<127232, 127242>>, <<130032, 130041>>
  >>

\* the ranges of the characters str.strip() removes
WhitespaceRanges ==
  <<
    <<9, 13>>, <<28, 32>>, <<133, 133>>, <<160, 160>>, <<5760, 5760>>, <<8192, 8202>>,
    <<8232, 8233>>, <<8239, 8239>>, <<8287, 8287>>, <<12288, 12288>>
  >>

\* the ranges of the cased characters (lower case, upper case or title case)
CasedRanges ==
  <<
    <<65, 90>>, <<97, 122>>, <<170, 170>>, <<181, 181>>, <<186, 186>>, <<192, 214>>,
    <<216, 246>>, <<248, 442>>, <<444, 447>>, <<452, 659>>, <<661, 696>>, <<704, 705>>,
    <<736, 740>>, <<837, 837>>, <<880, 883>>, <<886, 887>>, <<890, 893>>, <<895, 895>>,
    <<902, 902>>, <<904, 906>>, <<908, 908>>, <<910, 929>>, <<931, 1013>>, <<1015, 1153>>,
    <<1162, 1327>>, <<1329, 1366>>, <<1376, 1416>>, <<4256, 4293>>, <<4295, 4295>>, <<4301, 4301>>,
    <<4304, 4346>>, <<4349, 4351>>, <<5024, 5109>>, <<5112, 5117>>, <<7296, 7304>>, <<7312, 7354>>,
    <<7357, 7359>>, <<7424, 7615>>, <<7680, 7957>>, <<7960, 7965>>, <<7968, 8005>>, <<8008, 8013>>,
    <<8016, 8023>>, <<8025, 8025>>, <<8027, 8027>>, <<8029, 8029>>, <<8031, 8061>>, <<8064, 8116>>,
    <<8118, 8124>>, <<8126, 8126>>, <<8130, 8132>>, <<8134, 8140>>, <<8144, 8147>>, <<8150, 8155>>,
    <<8160, 8172>>, <<8178, 8180>>, <<8182, 8188>>, <<8305, 8305>>, <<8319, 8319>>, <<8336, 8348>>,
    <<8450, 8450>>, <<8455, 8455>>, <<8458, 8467>>, <<8469, 8469>>, <<8473, 8477>>, <<8484, 8484>>,
    <<8486, 8486>>, <<8488, 8488>>, <<8490, 8493>>, <<8495, 8500>>, <<8505, 8505>>, <<8508, 8511>>,
    <<8517, 8521>>, <<8526, 8526>>, <<8544, 8575>>, <<8579, 8580>>, <<9398, 9449>>, <<11264, 11492>>,
    <<11499, 11502>>, <<11506, 11507>>, <<11520, 11557>>, <<11559, 11559>>, <<11565, 11565>>, <<42560, 42605>>,
    <<42624, 42653>>, <<42786, 42887>>, <<42891, 42894>>, <<42896, 42954>>, <<42960, 42961>>, <<42963, 42963>>,
    <<42965, 42969>>, <<42997, 42998>>, <<43000, 43002>>, <<43824, 43866>>, <<43868, 43880>>, <<43888, 43967>>,
    <<64256, 64262>>, <<64275, 64279>>, <<65313, 65338>>, <<65345, 65370>>, <<66560, 66639>>, <<66736, 66771>>,
    <<66776, 66811>>, <<66928, 66938>>, <<66940, 66954>>, <<66956, 66962>>, <<66964, 66965>>, <<66967, 66977>>,
    <<66979, 66993>>, <<66995, 67001>>, <<67003, 67004>>, <<67456, 67456>>, <<67459, 67461>>, <<67463, 67504>>,
    <<67506, 67514>>, <<68736, 68786>>, <<68800, 68850>>, <<71840, 71903>>, <<93760, 93823>>, <<119808, 119892>>,
    <<119894, 119964>>, <<119966, 119967>>, <<119970, 119970>>, <<119973, 119974>>, <<119977, 119980>>, <<119982, 119993>>,
    <<119995, 119995>>, <<119997, 120003>>, <<120005, 120069>>, <<120071, 120074>>, <<120077, 120084>>, <<120086, 120092>>,
    <<120094, 120121>>, <<120123, 120126>>, <<120128, 120132>>, <<120134, 120134>>, <<120138, 120144>>, <<120146, 120485>>,
    <<120488, 120512>>, <<120514, 120538>>, <<120540, 120570>>, <<120572, 120596>>, <<120598, 120628>>, <<120630, 120654>>,
    <<120656, 120686>>, <<120688, 120712>>, <<120714, 120744>>, <<120746, 120770>>, <<120772, 120779>>, <<122624, 122633>>,
    <<122635, 122654>>, <<125184, 125251>>, <<127280, 127305>>, <<127312, 127337>>, <<127344, 127369>>
  >>

\* the ranges of the characters str.lower() skips when it looks for the
\* neighbours of a capital sigma
CaseIgnorableRanges ==
  <<
    <<39, 39>>, <<46, 46>>, <<58, 58>>, <<94, 94>>, <<96, 96>>, <<168, 168>>,
    <<173, 173>>, <<175, 175>>, <<180, 180>>, <<183, 184>>, <<688, 879>>, <<884, 885>>,
    <<890, 890>>, <<900, 901>>, <<903, 903>>, <<1155, 1161>>, <<1369, 1369>>, <<1375, 1375>>,
    <<1425, 1469>>, <<1471, 1471>>, <<1473, 1474>>, <<1476, 1477>>, <<1479, 1479>>, <<1524, 1524>>,
    <<1536, 1541>>, <<1552, 1562>>, <<1564, 1564>>, <<1600, 1600>>, <<1611, 1631>>, <<1648, 1648>>,
    <<1750, 1757>>, <<1759, 1768>>, <<1770, 1773>>, <<1807, 1807>>, <<1809, 1809>>, <<1840, 1866>>,
    <<1958, 1968>>, <<2027, 2037>>, <<2042, 2042>>, <<2045, 2045>>, <<2070, 2093>>, <<2137, 2139>>,
    <<2184, 2184>>, <<2192, 2193>>, <<2200, 2207>>, <<2249, 2306>>, <<2362, 2362>>, <<2364, 2364>>,
    <<2369, 2376>>, <<2381, 2381>>, <<2385, 2391>>, <<2402, 2403>>, <<2417, 2417>>, <<2433, 2433>>,
    <<2492, 2492>>, <<2497, 2500>>, <<2509, 2509>>, <<2530, 2531>>, <<2558, 2558>>, <<2561, 2562>>,
    <<2620, 2620>>, <<2625, 2626>>, <<2631, 2632>>, <<2635, 2637>>, <<2641, 2641>>, <<2672, 2673>>,
    <<2677, 2677>>, <<2689, 2690>>, <<2748, 2748>>, <<2753, 2757>>, <<2759, 2760>>, <<2765, 2765>>,
    <<2786, 2787>>, <<2810, 2815>>, <<2817, 2817>>, <<2876, 2876>>, <<2879, 2879>>, <<2881, 2884>>,
    <<2893, 2893>>, <<2901, 2902>>, <<2914, 2915>>, <<2946, 2946>>, <<3008, 3008>>, <<3021, 3021>>,
    <<3072, 3072>>, <<3076, 3076>>, <<3132, 3132>>, <<3134, 3136>>, <<3142, 3144>>, <<3146, 3149>>,
    <<3157, 3158>>, <<3170, 3171>>, <<3201, 3201>>, <<3260, 3260>>, <<3263, 3263>>, <<3270, 3270>>,
    <<3276, 3277>>, <<3298, 3299>>, <<3328, 3329>>, <<3387, 3388>>, <<3393, 3396>>, <<3405, 3405>>,
    <<3426, 3427>>, <<3457, 3457>>, <<3530, 3530>>, <<3538, 3540>>, <<3542, 3542>>, <<3633, 3633>>,
    <<3636, 3642>>, <<3654, 3662>>, <<3761, 3761>>, <<3764, 3772>>, <<3782, 3782>>, <<3784, 3789>>,
    <<3864, 3865>>, <<3893, 3893>>, <<3895, 3895>>, <<3897, 3897>>, <<3953, 3966>>, <<3968, 3972>>,
    <<3974, 3975>>, <<3981, 3991>>, <<3993, 4028>>, <<4038, 4038>>, <<4141, 4144>>, <<4146, 4151>>,
    <<4153, 4154>>, <<4157, 4158>>, <<4184, 4185>>, <<4190, 4192>>, <<4209, 4212>>, <<4226, 4226>>,
    <<4229, 4230>>, <<4237, 4237>>, <<4253, 4253>>, <<4348, 4348>>, <<4957, 4959>>, <<5906, 5908>>,
    <<5938, 5939>>, <<5970, 5971>>, <<6002, 6003>>, <<6068, 6069>>, <<6071, 6077>>, <<6086, 6086>>,
    <<6089, 6099>>, <<6103, 6103>>, <<6109, 6109>>, <<6155, 6159>>, <<6211, 6211>>, <<6277, 6278>>,
    <<6313, 6313>>, <<6432, 6434>>, <<6439, 6440>>, <<6450, 6450>>, <<6457, 6459>>, <<6679, 6680>>,
    <<6683, 6683>>, <<6742, 6742>>, <<6744, 6750>>, <<6752, 6752>>, <<6754, 6754>>, <<6757, 6764>>,
    <<6771, 6780>>, <<6783, 6783>>, <<6823, 6823>>, <<6832, 6862>>, <<6912, 6915>>, <<6964, 6964>>,
    <<6966, 6970>>, <<6972, 6972>>, <<6978, 6978>>, <<7019, 7027>>, <<7040, 7041>>, <<7074, 7077>>,
    <<7080, 7081>>, <<7083, 7085>>, <<7142, 7142>>, <<7144, 7145>>, <<7149, 7149>>, <<7151, 7153>>,
    <<7212, 7219>>, <<7222, 7223>>, <<7288, 7293>>, <<7376, 7378>>, <<7380, 7392>>, <<7394, 7400>>,
    <<7405, 7405>>, <<7412, 7412>>, <<7416, 7417>>, <<7468, 7530>>, <<7544, 7544>>, <<7579, 7679>>,
    <<8125, 8125>>, <<8127, 8129>>, <<8141, 8143>>, <<8157, 8159>>, <<8173, 8175>>, <<8189, 8190>>,
    <<8203, 8207>>, <<8216, 8217>>, <<8228, 8228>>, <<8231, 8231>>, <<8234, 8238>>, <<8288, 8292>>,
    <<8294, 8303>>, <<8305, 8305>>, <<8319, 8319>>, <<8336, 8348>>, <<8400, 8432>>, <<11388, 11389>>,
    <<11503, 11505>>, <<11631, 11631>>, <<11647, 11647>>, <<11744, 11775>>, <<11823, 11823>>, <<12293, 12293>>,
    <<12330, 12333>>, <<12337, 12341>>, <<12347, 12347>>, <<12441, 12446>>, <<12540, 12542>>, <<40981, 40981>>,
    <<42232, 42237>>, <<42508, 42508>>, <<42607, 42610>>, <<42612, 42621>>, <<42623, 42623>>, <<42652, 42655>>,
    <<42736, 42737>>, <<42752, 42785>>, <<42864, 42864>>, <<42888, 42890>>, <<42994, 42996>>, <<43000, 43001>>,
    <<43010, 43010>>, <<43014, 43014>>, <<43019, 43019>>, <<43045, 43046>>, <<43052, 43052>>, <<43204, 43205>>,
    <<43232, 43249>>, <<43263, 43263>>, <<43302, 43309>>, <<43335, 43345>>, <<43392, 43394>>, <<43443, 43443>>,
    <<43446, 43449>>, <<43452, 43453>>, <<43471, 43471>>, <<43493, 43494>>, <<43561, 43566>>, <<43569, 43570>>,
    <<43573, 43574>>, <<43587, 43587>>, <<43596, 43596>>, <<43632, 43632>>, <<43644, 43644>>, <<43696, 43696>>,
    <<43698, 43700>>, <<43703, 43704>>, <<43710, 43711>>, <<43713, 43713>>, <<43741, 43741>>, <<43756, 43757>>,
    <<43763, 43764>>, <<43766, 43766>>, <<43867, 43871>>, <<43881, 43883>>, <<44005, 44005>>, <<44008, 44008>>,
    <<44013, 44013>>, <<64286, 64286>>, <<64434, 64450>>, <<65024, 65039>>, <<65043, 65043>>, <<65056, 65071>>,
    <<65106, 65106>>, <<65109, 65109>>, <<65279, 65279>>, <<65287, 65287>>, <<65294, 65294>>, <<65306, 65306>>,
    <<65342, 65342>>, <<65344, 65344>>, <<65392, 65392>>, <<65438, 65439>>, <<65507, 65507>>, <<65529, 65531>>,
    <<66045, 66045>>, <<66272, 66272>>, <<66422, 66426>>, <<67456, 67461>>, <<67463, 67504>>, <<67506, 67514>>,
    <<68097, 68099>>, <<68101, 68102>>, <<68108, 68111>>, <<68152, 68154>>, <<68159, 68159>>, <<68325, 68326>>,
    <<68900, 68903>>, <<69291, 69292>>, <<69446, 69456>>, <<69506, 69509>>, <<69633, 69633>>, <<69688, 69702>>,
    <<69744, 69744>>, <<69747, 69748>>, <<69759, 69761>>, <<69811, 69814>>, <<69817, 69818>>, <<69821, 69821>>,
    <<69826, 69826>>, <<69837, 69837>>, <<69888, 69890>>, <<69927, 69931>>, <<69933, 69940>>, <<70003, 70003>>,
    <<70016, 70017>>, <<70070, 70078>>, <<70089, 70092>>, <<70095, 70095>>, <<70191, 70193>>, <<70196, 70196>>,
    <<70198, 70199>>, <<70206, 70206>>, <<70367, 70367>>, <<70371, 70378>>, <<70400, 70401>>, <<70459, 70460>>,
    <<70464, 70464>>, <<70502, 70508>>, <<70512, 70516>>, <<70712, 70719>>, <<70722, 70724>>, <<70726, 70726>>,
    <<70750, 70750>>, <<70835, 70840>>, <<70842, 70842>>, <<70847, 70848>>, <<70850, 70851>>, <<71090, 71093>>,
    <<71100, 71101>>, <<71103, 71104>>, <<71132, 71133>>, <<71219, 71226>>, <<71229, 71229>>, <<71231, 71232>>,
    <<71339, 71339>>, <<71341, 71341>>, <<71344, 71349>>, <<71351, 71351>>, <<71453, 71455>>, <<71458, 71461>>,
    <<71463, 71467>>, <<71727, 71735>>, <<71737, 71738>>, <<71995, 71996>>, <<71998, 71998>>, <<72003, 72003>>,
    <<72148, 72151>>, <<72154, 72155>>, <<72160, 72160>>, <<72193, 72202>>, <<72243, 72248>>, <<72251, 72254>>,
    <<72263, 72263>>, <<72273, 72278>>, <<72281, 72283>>, <<72330, 72342>>, <<72344, 72345>>, <<72752, 72758>>,
    <<72760, 72765>>, <<72767, 72767>>, <<72850, 72871>>, <<72874, 72880>>, <<72882, 72883>>, <<72885, 72886>>,
    <<73009, 73014>>, <<73018, 73018>>, <<73020, 73021>>, <<73023, 73029>>, <<73031, 73031>>, <<73104, 73105>>,
    <<73109, 73109>>, <<73111, 73111>>, <<73459, 73460>>, <<78896, 78904>>, <<92912, 92916>>, <<92976, 92982>>,
    <<92992, 92995>>, <<94031, 94031>>, <<94095, 94111>>, <<94176, 94177>>, <<94179, 94180>>, <<110576, 110579>>,
    <<110581, 110587>>, <<110589, 110590>>, <<113821, 113822>>, <<113824, 113827>>, <<118528, 118573>>, <<118576, 118598>>,
    <<119143, 119145>>, <<119155, 119170>>, <<119173, 119179>>, <<119210, 119213>>, <<119362, 119364>>, <<121344, 121398>>,
    <<121403, 121452>>, <<121461, 121461>>, <<121476, 121476>>, <<121499, 121503>>, <<121505, 121519>>, <<122880, 122886>>,
    <<122888, 122904>>, <<122907, 122913>>, <<122915, 122916>>, <<122918, 122922>>, <<123184, 123197>>, <<123566, 123566>>,
    <<123628, 123631>>, <<125136, 125142>>, <<125252, 125259>>, <<127995, 127999>>, <<917505, 917505>>, <<917536, 917631>>,
    <<917760, 917999>>
  >>

\* the characters str.lower() changes into one other character: in the range
\* <<first, last, step, delta>> every step-th character c from first on has
\* the lower case c + delta
LowerRanges ==
  <<
    <<65, 90, 1, 32>>, <<192, 214, 1, 32>>, <<216, 222, 1, 32>>, <<256, 302, 2, 1>>, <<306, 310, 2, 1>>,
    <<313, 327, 2, 1>>, <<330, 374, 2, 1>>, <<376, 376, 1, -121>>, <<377, 381, 2, 1>>, <<385, 385, 1, 210>>,
    <<386, 388, 2, 1>>, <<390, 390, 1, 206>>, <<391, 391, 1, 1>>, <<393, 394, 1, 205>>, <<395, 395, 1, 1>>,
    <<398, 398, 1, 79>>, <<399, 399, 1, 202>>, <<400, 400, 1, 203>>, <<401, 401, 1, 1>>, <<403, 403, 1, 205>>,
    <<404, 404, 1, 207>>, <<406, 406, 1, 211>>, <<407, 407, 1, 209>>, <<408, 408, 1, 1>>, <<412, 412, 1, 211>>,
    <<413, 413, 1, 213>>, <<415, 415, 1, 214>>, <<416, 420, 2, 1>>, <<422, 422, 1, 218>>, <<423, 423, 1, 1>>,
    <<425, 425, 1, 218>>, <<428, 428, 1, 1>>, <<430, 430, 1, 218>>, <<431, 431, 1, 1>>, <<433, 434, 1, 217>>,
    <<435, 437, 2, 1>>, <<439, 439, 1, 219>>, <<440, 440, 1, 1>>, <<444, 444, 1, 1>>, <<452, 452, 1, 2>>,
    <<453, 453, 1, 1>>, <<455, 455, 1, 2>>, <<456, 456, 1, 1>>, <<458, 458, 1, 2>>, <<459, 475, 2, 1>>,
    <<478, 494, 2, 1>>, <<497, 497, 1, 2>>, <<498, 500, 2, 1>>, <<502, 502, 1, -97>>, <<503, 503, 1, -56>>,
    <<504, 542, 2, 1>>, <<544, 544, 1, -130>>, <<546, 562, 2, 1>>, <<570, 570, 1, 10795>>, <<571, 571, 1, 1>>,
    <<573, 573, 1, -163>>, <<574, 574, 1, 10792>>, <<577, 577, 1, 1>>, <<579, 579, 1, -195>>, <<580, 580, 1, 69>>,
    <<581, 581, 1, 71>>, <<582, 590, 2, 1>>, <<880, 882, 2, 1>>, <<886, 886, 1, 1>>, <<895, 895, 1, 116>>,
    <<902, 902, 1, 38>>, <<904, 906, 1, 37>>, <<908, 908, 1, 64>>, <<910, 911, 1, 63>>, <<913, 929, 1, 32>>,
    <<931, 939, 1, 32>>, <<975, 975, 1, 8>>, <<984, 1006, 2, 1>>, <<1012, 1012, 1, -60>>, <<1015, 1015, 1, 1>>,
    <<1017, 1017, 1, -7>>, <<1018, 1018, 1, 1>>, <<1021, 1023, 1, -130>>, <<1024, 1039, 1, 80>>, <<1040, 1071, 1, 32>>,
    <<1120, 1152, 2, 1>>, <<1162, 1214, 2, 1>>, <<1216, 1216, 1, 15>>, <<1217, 1229, 2, 1>>, <<1232, 1326, 2, 1>>,
    <<1329, 1366, 1, 48>>, <<4256, 4293, 1, 7264>>, <<4295, 4295, 1, 7264>>, <<4301, 4301, 1, 7264>>, <<5024, 5103, 1, 38864>>,
    <<5104, 5109, 1, 8>>, <<7312, 7354, 1, -3008>>, <<7357, 7359, 1, -3008>>, <<7680, 7828, 2, 1>>, <<7838, 7838, 1, -7615>>,
    <<7840, 7934, 2, 1>>, <<7944, 7951, 1, -8>>, <<7960, 7965, 1, -8>>, <<7976, 7983, 1, -8>>, <<7992, 7999, 1, -8>>,
    <<8008, 8013, 1, -8>>, <<8025, 8031, 2, -8>>, <<8040, 8047, 1, -8>>, <<8072, 8079, 1, -8>>, <<8088, 8095, 1, -8>>,
    <<8104, 8111, 1, -8>>, <<8120, 8121, 1, -8>>, <<8122, 8123, 1, -74>>, <<8124, 8124, 1, -9>>, <<8136, 8139, 1, -86>>,
    <<8140, 8140, 1, -9>>, <<8152, 8153, 1, -8>>, <<8154, 8155, 1, -100>>, <<8168, 8169, 1, -8>>, <<8170, 8171, 1, -112>>,
    <<8172, 8172, 1, -7>>, <<8184, 8185, 1, -128>>, <<8186, 8187, 1, -126>>, <<8188, 8188, 1, -9>>, <<8486, 8486, 1, -7517>>,
    <<8490, 8490, 1, -8383>>, <<8491, 8491, 1, -8262>>, <<8498, 8498, 1, 28>>, <<8544, 8559, 1, 16>>, <<8579, 8579, 1, 1>>,
    <<9398, 9423, 1, 26>>, <<11264, 11311, 1, 48>>, <<11360, 11360, 1, 1>>, <<11362, 11362, 1, -10743>>, <<11363, 11363, 1, -3814>>,
    <<11364, 11364, 1, -10727>>, <<11367, 11371, 2, 1>>, <<11373, 11373, 1, -10780>>, <<11374, 11374, 1, -10749>>, <<11375, 11375, 1, -10783>>,
    <<11376, 11376, 1, -10782>>, <<11378, 11378, 1, 1>>, <<11381, 11381, 1, 1>>, <<11390, 11391, 1, -10815>>, <<11392, 11490, 2, 1>>,
    <<11499, 11501, 2, 1>>, <<11506, 11506, 1, 1>>, <<42560, 42604, 2, 1>>, <<42624, 42650, 2, 1>>, <<42786, 42798, 2, 1>>,
    <<42802, 42862, 2, 1>>, <<42873, 42875, 2, 1>>, <<42877, 42877, 1, -35332>>, <<42878, 42886, 2, 1>>, <<42891, 42891, 1, 1>>,
    <<42893, 42893, 1, -42280>>, <<42896, 42898, 2, 1>>, <<42902, 42920, 2, 1>>, <<42922, 42922, 1, -42308>>, <<42923, 42923, 1, -42319>>,
    <<42924, 42924, 1, -42315>>, <<42925, 42925, 1, -42305>>, <<42926, 42926, 1, -42308>>, <<42928, 42928, 1, -42258>>, <<42929, 42929, 1, -42282>>,
    <<42930, 42930, 1, -42261>>, <<42931, 42931, 1, 928>>, <<42932, 42946, 2, 1>>, <<42948, 42948, 1, -48>>, <<42949, 42949, 1, -42307>>,
    <<42950, 42950, 1, -35384>>, <<42951, 42953, 2, 1>>, <<42960, 42960, 1, 1>>, <<42966, 42968, 2, 1>>, <<42997, 42997, 1, 1>>,
    <<65313, 65338, 1, 32>>, <<66560, 66599, 1, 40>>, <<66736, 66771, 1, 40>>, <<66928, 66938, 1, 39>>, <<66940, 66954, 1, 39>>,
    <<66956, 66962, 1, 39>>, <<66964, 66965, 1, 39>>, <<68736, 68786, 1, 64>>, <<71840, 71871, 1, 32>>, <<93760, 93791, 1, 32>>,
    <<125184, 125217, 1, 34>>
  >>

\* capital sigma, whose lower case depends on its place in the word, and the
\* two small sigmas
CapitalSigma == 931

SmallSigma == 963

FinalSmallSigma == 962

\* capital I with dot above, whose lower case is two characters: i and the
\* combining dot above
CapitalIDot == 304

\* char.isalpha()
isalpha(c) == InRanges(AlphaRanges, c)

\* char.isdigit()
isdigit(c) == InRanges(DigitRanges, c)

\* whether str.strip() removes c
Whitespace(c) == InRanges(WhitespaceRanges, c)

Cased(c) == InRanges(CasedRanges, c)

CaseIgnorable(c) == InRanges(CaseIgnorableRanges, c)

\* str.lower() of the one-character str c (a capital sigma alone is not at
\* the end of a word)
LowerChar(c) ==
    IF c = CapitalIDot THEN <<105, 775>>
    ELSE LET k == Find(LowerRanges, c, 1, Len(LowerRanges))
         IN IF k # 0 /\ (c - LowerRanges[k][1]) % LowerRanges[k][3] = 0
            THEN <<c + LowerRanges[k][4]>>
            ELSE <<c>>

\* whether the capital sigma at s[i] ends a word: the nearest character
\* before it that is not case-ignorable is cased, and the nearest one after
\* it, if any, is not
FinalSigma(s, i) ==
    LET before == {j \in 1..(i - 1) : ~CaseIgnorable(s[j])}
        after == {j \in (i + 1)..Len(s) : ~CaseIgnorable(s[j])}
    IN /\ before # {}
       /\ Cased(s[CHOOSE j \in before : \A k \in before : k <= j])
       /\ after = {} \/ ~Cased(s[CHOOSE j \in after : \A k \in after : j <= k])

RECURSIVE LowerFrom(_, _)
\* the lower case of s from position i on
LowerFrom(s, i) ==
    IF i > Len(s) THEN <<>>
    ELSE (IF s[i] = CapitalSigma
          THEN <<IF FinalSigma(s, i) THEN FinalSmallSigma ELSE SmallSigma>>
          ELSE LowerChar(s[i])) \o LowerFrom(s, i + 1)

\* pinyin.lower()
lower(s) == LowerFrom(s, 1)

\* ------------------------------------------------------------------------
\* pinyin_to_sapi
\* ------------------------------------------------------------------------
\* the marked vowel (a code point) gives its base letter and its tone, in
\* the order of the source: a, e, i, o, u with the tones 1 to 4, then
\* u-diaeresis with the tones 1 to 4 and bare
tone_marks ==
    257 :> <<"a", "1">> @@ 225 :> <<"a", "2">> @@ 462 :> <<"a", "3">> @@ 224 :> <<"a", "4">> @@
    275 :> <<"e", "1">> @@ 233 :> <<"e", "2">> @@ 283 :> <<"e", "3">> @@ 232 :> <<"e", "4">> @@
    299 :> <<"i", "1">> @@ 237 :> <<"i", "2">> @@ 464 :> <<"i", "3">> @@ 236 :> <<"i", "4">> @@
    333 :> <<"o", "1">> @@ 243 :> <<"o", "2">> @@ 466 :> <<"o", "3">> @@ 242 :> <<"o", "4">> @@
    363 :> <<"u", "1">> @@ 250 :> <<"u", "2">> @@ 468 :> <<"u", "3">> @@ 249 :> <<"u", "4">> @@
    470 :> <<"v", "1">> @@ 472 :> <<"v", "2">> @@ 474 :> <<"v", "3">> @@ 476 :> <<"v", "4">> @@
    252 :> <<"v", "5">>

\* the locals of pinyin_to_sapi before the loop
ScanInit == [result |-> <<>>, current_syllable |-> <<>>, tone |-> <<>>]

\* LoopBody with a tone mark that leaves the pending tone alone
LoopBody_MarkSetsNoTone(st, char) ==
    IF char \in DOMAIN tone_marks
    THEN [st EXCEPT !.current_syllable = @ \o Str(<<tone_marks[char][1]>>)]
    ELSE IF char = Ord(" ")
    THEN IF st.current_syllable # <<>>
         THEN [result |-> Append(st.result, st.current_syllable \o st.tone),
               current_syllable |-> <<>>,
               tone |-> <<>>]
         ELSE st
    ELSE IF isalpha(char)
    THEN [st EXCEPT !.current_syllable = @ \o <<char>>]
    ELSE IF isdigit(char)
    THEN [st EXCEPT !.tone = <<char>>]
    ELSE st

\* one iteration of the loop over pinyin.lower()
LoopBody(st, char) ==
    IF char \in DOMAIN tone_marks
    THEN [st EXCEPT !.current_syllable = @ \o Str(<<tone_marks[char][1]>>),
                    !.tone = Str(<<tone_marks[char][2]>>)]
    ELSE IF char = Ord(" ")
    THEN IF st.current_syllable # <<>>
         THEN [result |-> Append(st.result, st.current_syllable \o st.tone),
               current_syllable |-> <<>>,
               tone |-> <<>>]
         ELSE st
    ELSE IF isalpha(char)
    THEN [st EXCEPT !.current_syllable = @ \o <<char>>]
    ELSE IF isdigit(char)
    THEN [st EXCEPT !.tone = <<char>>]
    ELSE st

\* LastSyllable with the last syllable forgotten
LastSyllable_Forgotten(st) == st.result

\* the last syllable, closed by the end of the input
LastSyllable(st) ==
    IF st.current_syllable # <<>>
    THEN Append(st.result,
                st.current_syllable \o (IF st.tone # <<>> THEN st.tone ELSE Str(<<"5">>)))
    ELSE st.result

RECURSIVE join(_)
\* " ".join(result)
join(toks) ==
    IF toks = <<>> THEN <<>>
    ELSE IF Len(toks) = 1 THEN toks[1]
    ELSE toks[1] \o Str(<<" ">>) \o join(Tail(toks))

RECURSIVE Scan(_, _)
\* the whole loop, from locals st over the characters s
Scan(st, s) == IF s = <<>> THEN st ELSE Scan(LoopBody(st, Head(s)), Tail(s))

pinyin_to_sapi(pinyin) ==
    IF pinyin = <<>> THEN <<>>
    ELSE join(LastSyllable(Scan(ScanInit, lower(pinyin))))

\* ------------------------------------------------------------------------
\* build_ssml
\* ------------------------------------------------------------------------
\* None where a str is expected; no str has this element
None == <<-1>>

\* Truthy as the test for None only
Truthy_IsNotNone(s) == s # None

\* bool(s) of an Optional[str]
Truthy(s) == s # None /\ s # <<>>

\* the literal pieces of the two f-strings of build_ssml
SpeakOpen ==
    Str(<<"<", "s", "p", "e", "a", "k", " ", "v", "e", "r", "s", "i", "o", "n", "=", "\"",
          "1", ".", "0", "\"", " ", "x", "m", "l", "n", "s", "=", "\"", "h", "t", "t", "p",
          ":", "/", "/", "w", "w", "w", ".", "w", "3", ".", "o", "r", "g", "/", "2", "0",
          "0", "1", "/", "1", "0", "/", "s", "y", "n", "t", "h", "e", "s", "i", "s", "\"",
          " ", "\n", " ", " ", " ", " ", " ", " ", " ", " ", " ", " ", " ", "x", "m", "l",
          "n", "s", ":", "m", "s", "t", "t", "s", "=", "\"", "h", "t", "t", "p", "s", ":",
          "/", "/", "w", "w", "w", ".", "w", "3", ".", "o", "r", "g", "/", "2", "0", "0",
          "1", "/", "m", "s", "t", "t", "s", "\"", " ", "x", "m", "l", ":", "l", "a", "n",
          "g", "=", "\"", "z", "h", "-", "C", "N", "\"", ">", "\n", " ", " ", " ", " ", "<",
          "v", "o", "i", "c", "e", " ", "n", "a", "m", "e", "=", "\"">>)

VoiceOpenEnd ==
    Str(<<"\"", ">", "\n", " ", " ", " ", " ", " ", " ", " ", " ">>)

VoiceClose ==
    Str(<<"\n", " ", " ", " ", " ", "<", "/", "v", "o", "i", "c", "e", ">", "\n", "<", "/",
          "s", "p", "e", "a", "k", ">">>)

PhonemeOpen ==
    Str(<<"<", "p", "h", "o", "n", "e", "m", "e", " ", "a", "l", "p", "h", "a", "b", "e",
          "t", "=", "\"", "s", "a", "p", "i", "\"", " ", "p", "h", "=", "\"">>)

PhonemeOpenEnd ==
    Str(<<"\"", ">">>)

PhonemeClose ==
    Str(<<"<", "/", "p", "h", "o", "n", "e", "m", "e", ">">>)

\* the payload, the str the two f-strings make
build_ssml(text, voice_id, hint) ==
    LET content ==
            IF Truthy(hint)
            THEN PhonemeOpen \o pinyin_to_sapi(hint) \o PhonemeOpenEnd
                     \o text \o PhonemeClose
            ELSE text
    IN SpeakOpen \o voice_id \o VoiceOpenEnd \o content \o VoiceClose

\* ------------------------------------------------------------------------
\* synthesize
\* ------------------------------------------------------------------------
\* the voice table; a key is one string, an id is a str as it is written
\* into the payload
VOICES ==
    "xiaoxiao" :> [id |-> Str(<<"z", "h", "-", "C", "N", "-", "X", "i", "a", "o", "x", "i", "a", "o", "N", "e", "u", "r", "a", "l">>),
        name |-> "Xiaoxiao", gender |-> "female",
        description |-> "Young female, natural and clear", language |-> "zh-CN"] @@
    "xiaoyi" :> [id |-> Str(<<"z", "h", "-", "C", "N", "-", "X", "i", "a", "o", "y", "i", "N", "e", "u", "r", "a", "l">>),
        name |-> "Xiaoyi", gender |-> "female",
        description |-> "Warm female voice", language |-> "zh-CN"] @@
    "yunxi" :> [id |-> Str(<<"z", "h", "-", "C", "N", "-", "Y", "u", "n", "x", "i", "N", "e", "u", "r", "a", "l">>),
        name |-> "Yunxi", gender |-> "male",
        description |-> "Young male voice", language |-> "zh-CN"] @@
    "yunyang" :> [id |-> Str(<<"z", "h", "-", "C", "N", "-", "Y", "u", "n", "y", "a", "n", "g", "N", "e", "u", "r", "a", "l">>),
        name |-> "Yunyang", gender |-> "male",
        description |-> "Professional male narrator", language |-> "zh-CN"] @@
    "xiaomo" :> [id |-> Str(<<"z", "h", "-", "C", "N", "-", "X", "i", "a", "o", "m", "o", "N", "e", "u", "r", "a", "l">>),
        name |-> "Xiaomo", gender |-> "female",
        description |-> "Gentle female voice", language |-> "zh-CN"]

DEFAULT_VOICE == "xiaoxiao"

\* request.voice is <<>> for None and <<v>> for the str v, a voice key
\* being one string
NoneVoice == <<>>

RECURSIVE lstrip(_)
lstrip(s) == IF s # <<>> /\ Whitespace(Head(s)) THEN lstrip(Tail(s)) ELSE s

RECURSIVE rstrip(_)
rstrip(s) ==
    IF s # <<>> /\ Whitespace(s[Len(s)]) THEN rstrip(SubSeq(s, 1, Len(s) - 1)) ELSE s

\* str.strip()
strip(s) == rstrip(lstrip(s))

\* request.voice or DEFAULT_VOICE
VoiceKey(req) ==
    IF req.voice = NoneVoice \/ req.voice = <<"">> THEN DEFAULT_VOICE ELSE req.voice[1]

\* Rejection with the text tested before it is stripped only
Rejection_Unstripped(config, req) ==
    IF ~config THEN 500
    ELSE IF req.text = <<>> THEN 400
    ELSE IF VoiceKey(req) \notin DOMAIN VOICES THEN 400
    ELSE 0

\* the checks that precede the core: 0 when the request passes them all,
\* otherwise the status of the HTTPException raised
Rejection(config, req) ==
    IF ~config THEN 500
    ELSE IF req.text = <<>> \/ strip(req.text) = <<>> THEN 400
    ELSE IF VoiceKey(req) \notin DOMAIN VOICES THEN 400
    ELSE 0

RejectionDetail(config, req) ==
    IF ~config THEN <<"Azure Speech not configured">>
    ELSE IF req.text = <<>> \/ strip(req.text) = <<>> THEN <<"Text is required">>
    ELSE <<"Unknown voice: ", VoiceKey(req)>>

\* what the SDK can do in the try block: SpeechSynthesizer(...) raises, or
\* the synthesizer is created and handed the payload, and then either
\* speak_ssml_async(ssml).get() raises or it returns a result with one of
\* the three kinds of result.reason the code tells apart
Outcomes ==
    {"SpeechSynthesizer raises", "speak_ssml_async raises",
     "SynthesizingAudioCompleted", "Canceled", "SynthesizingAudioStarted"}

\* the reply of the try block for an outcome of the synthesizer
Reply(outcome, text, voice_key, used) ==
    IF outcome = "SynthesizingAudioCompleted"
    THEN [status_code |-> 200,
          body |-> [format |-> "mp3", charactersUsed |-> Len(text),
                    voice |-> voice_key, usedPhoneme |-> used]]
    ELSE [status_code |-> 500,
          detail |-> <<"Synthesis failed: ",
                       CASE outcome = "Canceled" -> "Synthesis canceled"
                         [] outcome = "SynthesizingAudioStarted" -> "Unknown result"
                         [] outcome = "SpeechSynthesizer raises" -> "SpeechSynthesizer"
                         [] OTHER -> "speak_ssml_async">>]

NoReply == [status_code |-> 0]

\* ------------------------------------------------------------------------
\* State
\* ------------------------------------------------------------------------
VARIABLES
    \* a call of pinyin_to_sapi: its argument, its position, its locals, its
    \* return value
    pinyin, npc, idx, result, current_syllable, tone, sapi,
    \* the environment: whether AZURE_SPEECH_KEY is set
    configured,
    \* a call of synthesize: its position, its request, its locals (whether
    \* a synthesizer has been created among them), the payload handed to
    \* speak_ssml_async and the reply to the caller
    pc, request, ssml, used_phoneme, synthesizer, spoken, reply

nvars == <<pinyin, npc, idx, result, current_syllable, tone, sapi>>

svars == <<configured, pc, request, ssml, used_phoneme, synthesizer, spoken, reply>>

vars == <<nvars, svars>>

BoundedSeq(S, n) == UNION {[1..k -> S] : k \in 0..n}

\* the characters the hints of the model are made of: a lower-case and an
\* upper-case letter, the space, a tone digit, a digit that is no tone, a
\* punctuation mark, e-grave (232), n-acute (324) and superscript two (178)
HintChars == Range(Str(<<"m", "A", " ", "4", "9", "!">>)) \cup {232, 324, 178}

\* hints with the characters whose lower case is not one fixed character,
\* with characters str.lower() skips next to a capital sigma (apostrophe,
\* full stop, backtick 96, soft hyphen 173, combining acute 769, combining
\* dot above 775), and with other letters (c-cedilla 231 and 199, sharp s
\* 223, N-tilde 209, E-circumflex 202, A-acute 193, alpha 945, e-circumflex-
\* acute 7871 and 7870, the Hanzi 20013 and 25991), digits (superscript
\* three 179, Arabic-Indic zero 1632 and three 1635, circled one 9312,
\* fullwidth three 65299 and four 65300) and whitespace (tab 9, ideographic
\* space 12288)
SpecialHints ==
    {<<CapitalIDot>>, <<CapitalIDot, 52>>, <<109, 32, CapitalIDot, 110>>,
     <<CapitalSigma>>, <<65, CapitalSigma>>, <<65, CapitalSigma, 109>>,
     <<65, 39, CapitalSigma, 52>>, <<65, 33, CapitalSigma>>,
     <<65, CapitalSigma, 46, 109>>, <<65, CapitalSigma, 775>>,
     <<65, 96, CapitalSigma>>, <<65, CapitalSigma, 96, 109>>,
     <<193, 769, CapitalSigma>>, <<65, 173, CapitalSigma>>,
     <<49, 7871, CapitalSigma>>, <<49, 231, CapitalSigma>>, <<49, 945, CapitalSigma>>,
     <<7871>>, <<7870, 109>>, <<199>>, <<231, 97>>, <<945>>,
     <<20013>>, <<20013, 52, 32, 25991>>, <<223>>, <<209, 103>>, <<202>>,
     <<109, 97, 65299>>, <<109, 97, 65300>>, <<109, 97, 1635>>, <<109, 97, 1632>>,
     <<109, 97, 179>>, <<109, 9312, 32, 109>>,
     <<109, 9, 109>>, <<109, 12288, 109>>}

\* the marked vowels of the notation in lower and in upper case, in the
\* order a, e, i, o, u, u-diaeresis, four tones each, the bare u-diaeresis
\* last
MarkLower ==
    <<257, 225, 462, 224, 275, 233, 283, 232, 299, 237, 464, 236, 333,
      243, 466, 242, 363, 250, 468, 249, 470, 472, 474, 476, 252>>

MarkUpper ==
    <<256, 193, 461, 192, 274, 201, 282, 200, 298, 205, 463, 204, 332,
      211, 465, 210, 362, 218, 467, 217, 469, 471, 473, 475, 220>>

\* one-vowel syllables over the whole table of tone marks, in both cases
MarkedSyllables ==
    UNION {{<<d>>, <<120, 105, d>>, <<78, d, 110>>} :
           d \in Range(MarkLower) \cup Range(MarkUpper)}

Hints == BoundedSeq(HintChars, MaxHintLen) \cup MarkedSyllables \cup SpecialHints

\* the requests of the model: texts of a Hanzi (35874), spaces and tabs
TextChars == {35874, 32, 9}

Texts == BoundedSeq(TextChars, MaxTextLen)

VoiceArgs == {NoneVoice, <<"">>, <<"yunyang">>, <<"alloy">>, <<"None">>}

\* the characters of the hints of the requests, and some longer hints
ReqHintChars == Range(Str(<<"m", " ">>))

PinyinArgs ==
    {None} \cup BoundedSeq(ReqHintChars, MaxReqHintLen)
           \cup {<<120, 105, 232>>, Str(<<"m", " ", "m">>), Str(<<"M", "9">>),
                 Str(<<"!">>), <<324, 103>>, <<109, 97, 178>>, Str(<<"m", "4">>),
                 <<232>>, Str(<<"4">>), <<7871>>, <<109, 97, 65299>>,
                 <<65, 96, CapitalSigma>>}

Requests == [text : Texts, voice : VoiceArgs, pinyin : PinyinArgs]

NoRequest == [text |-> <<>>, voice |-> NoneVoice, pinyin |-> None]

\* no call of synthesize is under way
ServiceIdle ==
    /\ pc = "idle"
    /\ request = NoRequest
    /\ ssml = None
    /\ used_phoneme = FALSE
    /\ synthesizer = FALSE
    /\ spoken = None
    /\ reply = NoReply

\* no call of pinyin_to_sapi is under way
NormIdle ==
    /\ pinyin = <<>>
    /\ npc = "idle"
    /\ idx = 0
    /\ result = <<>>
    /\ current_syllable = <<>>
    /\ tone = <<>>
    /\ sapi = <<>>

\* ------------------------------------------------------------------------
\* pinyin_to_sapi, statement by statement
\* ------------------------------------------------------------------------
NormInit ==
    /\ pinyin \in Hints
    /\ npc = "call"
    /\ idx = 0
    /\ result = <<>>
    /\ current_syllable = <<>>
    /\ tone = <<>>
    /\ sapi = <<>>
    /\ configured = TRUE
    /\ ServiceIdle

\* entry: the empty hint returns at once, any other starts the loop
Enter ==
    /\ npc = "call"
    /\ IF pinyin = <<>>
       THEN /\ npc' = "done"
            /\ sapi' = <<>>
            /\ UNCHANGED <<idx, result, current_syllable, tone>>
       ELSE /\ npc' = "loop"
            /\ idx' = 1
            /\ result' = ScanInit.result
            /\ current_syllable' = ScanInit.current_syllable
            /\ tone' = ScanInit.tone
            /\ sapi' = sapi
    /\ UNCHANGED <<pinyin, svars>>

\* one iteration of `for char in pinyin.lower()`
Iterate ==
    /\ npc = "loop"
    /\ idx <= Len(lower(pinyin))
    /\ LET st == LoopBody([result |-> result,
                           current_syllable |-> current_syllable,
                           tone |-> tone], lower(pinyin)[idx])
       IN /\ result' = st.result
          /\ current_syllable' = st.current_syllable
          /\ tone' = st.tone
    /\ idx' = idx + 1
    /\ UNCHANGED <<pinyin, npc, sapi, svars>>

\* after the loop: the last syllable and the join
Return ==
    /\ npc = "loop"
    /\ idx > Len(lower(pinyin))
    /\ result' = LastSyllable([result |-> result,
                               current_syllable |-> current_syllable,
                               tone |-> tone])
    /\ sapi' = join(result')
    /\ npc' = "done"
    /\ UNCHANGED <<pinyin, idx, current_syllable, tone, svars>>

NormNext == Enter \/ Iterate \/ Return

NormSpec == NormInit /\ [][NormNext]_vars

\* the stepwise call and the function agree
StepwiseIsFunction == npc = "done" => sapi = pinyin_to_sapi(pinyin)

\* ------------------------------------------------------------------------
\* The service
\* ------------------------------------------------------------------------
Init ==
    /\ configured \in BOOLEAN
    /\ ServiceIdle
    /\ NormIdle

\* synthesize up to the try block: the checks, then the payload
Synthesize(req) ==
    /\ pc = "idle"
    /\ request' = req
    /\ IF Rejection(configured, req) # 0
       THEN /\ reply' = [status_code |-> Rejection(configured, req),
                         detail |-> RejectionDetail(configured, req)]
            /\ pc' = "done"
            /\ UNCHANGED <<ssml, used_phoneme>>
       ELSE /\ ssml' = build_ssml(strip(req.text), VOICES[VoiceKey(req)].id, req.pinyin)
            /\ used_phoneme' = Truthy(req.pinyin)
            /\ pc' = "speaking"
            /\ reply' = reply
    /\ UNCHANGED <<configured, synthesizer, spoken, nvars>>

\* the try block: the synthesizer is created and handed the payload, unless
\* its constructor raises, and the outcome decides the reply
Speak(outcome) ==
    /\ pc = "speaking"
    /\ IF outcome = "SpeechSynthesizer raises"
       THEN UNCHANGED <<synthesizer, spoken>>
       ELSE /\ synthesizer' = TRUE
            /\ spoken' = ssml
    /\ reply' = Reply(outcome, strip(request.text), VoiceKey(request), used_phoneme)
    /\ pc' = "done"
    /\ UNCHANGED <<configured, request, ssml, used_phoneme, nvars>>

\* the reply goes to the caller and the locals of the call are gone
Respond ==
    /\ pc = "done"
    /\ pc' = "idle"
    /\ request' = NoRequest
    /\ ssml' = None
    /\ used_phoneme' = FALSE
    /\ synthesizer' = FALSE
    /\ spoken' = None
    /\ reply' = NoReply
    /\ UNCHANGED <<configured, nvars>>

Next ==
    \/ \E req \in Requests : Synthesize(req)
    \/ \E outcome \in Outcomes : Speak(outcome)
    \/ Respond

Spec == Init /\ [][Next]_vars

\* ------------------------------------------------------------------------
\* Vocabulary of the properties
\* ------------------------------------------------------------------------
RECURSIVE Split(_)
\* the groups of s between its spaces, empty groups included
Split(s) ==
    IF \A i \in DOMAIN s : s[i] # 32 THEN <<s>>
    ELSE LET i == CHOOSE j \in DOMAIN s : s[j] = 32 /\ \A k \in 1..(j - 1) : s[k] # 32
         IN <<SubSeq(s, 1, i - 1)>> \o Split(SubSeq(s, i + 1, Len(s)))

\* the tokens of a normalised pronunciation
Tokens(s) == IF s = <<>> THEN <<>> ELSE Split(s)

\* the characters 1 to 5
ToneDigits == 49..53

IsDigitChar(c) == isdigit(c)

\* the letters A to Z and a to z
IsLatin(c) == c \in 65..90 \cup 97..122

\* position of a tone-marked vowel, of either case, in the order a, e, i, o,
\* u, u-diaeresis, four tones each, the bare u-diaeresis last; 0 for any
\* other character
MarkIndex(c) ==
    IF \E i \in DOMAIN MarkLower : MarkLower[i] = c \/ MarkUpper[i] = c
    THEN CHOOSE i \in DOMAIN MarkLower : MarkLower[i] = c \/ MarkUpper[i] = c
    ELSE 0

\* the base letter and the tone the notation gives a marked vowel
MarkBase(c) == Str(<<"a", "e", "i", "o", "u", "v", "v">>)[((MarkIndex(c) - 1) \div 4) + 1]

MarkTone(c) == IF MarkIndex(c) = 25 THEN 53 ELSE 49 + ((MarkIndex(c) - 1) % 4)

\* the letter a Latin letter or a marked vowel contributes to its syllable
BaseLetter(c) == IF MarkIndex(c) # 0 THEN MarkBase(c) ELSE LowerChar(c)[1]

\* an alphabetic character
IsLetter(c) == isalpha(c)

HasLetter(g) == \E i \in DOMAIN g : IsLetter(g[i])

\* the groups of a hint that hold a letter, in order
LetteredGroups(p) == SelectSeq(Split(p), HasLetter)

\* the letters of a group, in lower case, marked vowels as their base letter
GroupLetters(g) ==
    LET ls == SelectSeq(lower(g), IsLetter)
    IN [i \in DOMAIN ls |-> IF MarkIndex(ls[i]) # 0 THEN MarkBase(ls[i]) ELSE ls[i]]

NotDigitChar(c) == ~IsDigitChar(c)

TokenLetters(tok) == SelectSeq(tok, NotDigitChar)

\* letters followed by exactly one tone digit
IsSyllableWithTone(tok) ==
    /\ Len(tok) >= 2
    /\ tok[Len(tok)] \in ToneDigits
    /\ \A i \in 1..(Len(tok) - 1) : ~IsDigitChar(tok[i])

\* ------------------------------------------------------------------------
\* Properties of pinyin_to_sapi (under NormSpec)
\* ------------------------------------------------------------------------

\* C2: every token of the output ends in exactly one tone digit, the syllable
\* closed by a space included (default 5 when no tone was set).
C2_EveryTokenEndsInToneDigit ==
    npc = "done" =>
        \A k \in DOMAIN Tokens(sapi) :
            LET tok == Tokens(sapi)[k]
            IN /\ tok # <<>>
               /\ IsDigitChar(tok[Len(tok)])
               /\ \A i \in 1..(Len(tok) - 1) : ~IsDigitChar(tok[i])

\* a character the normaliser is to ignore
Unrecognized(c) == ~(IsLetter(c) \/ c = 32 \/ c \in ToneDigits)

Recognized(c) == ~Unrecognized(c)

\* C3: characters that are not alphabetic, no marked vowel, no space and no
\* tone digit 1..5 are ignored: deleting them leaves the output unchanged,
\* and only 1..5 appear as digits of the output.
C3_UnrecognizedIgnored ==
    npc = "done" =>
        /\ sapi = pinyin_to_sapi(SelectSeq(pinyin, Recognized))
        /\ \A i \in DOMAIN sapi : IsDigitChar(sapi[i]) => sapi[i] \in ToneDigits

IsToneNumberForm(p) == \A i \in DOMAIN p : IsLatin(p[i]) \/ p[i] \in ToneDigits \/ p[i] = 32

\* C4: on input made of Latin letters, tone digits 1..5 and spaces,
\* normalising the output again gives the output.
C4_Idempotent ==
    (npc = "done" /\ IsToneNumberForm(pinyin)) => pinyin_to_sapi(sapi) = sapi

\* one syllable of Latin letters with exactly one vowel marked with tone 1..4
IsMarkedSyllable(p) ==
    /\ \A i \in DOMAIN p : IsLatin(p[i]) \/ MarkIndex(p[i]) \in 1..24
    /\ Cardinality({i \in DOMAIN p : MarkIndex(p[i]) \in 1..24}) = 1

MarkedTone(p) == MarkTone(p[CHOOSE i \in DOMAIN p : MarkIndex(p[i]) # 0])

\* C5: a single syllable with one tone-marked vowel V of tone T normalises to
\* its letters (case folded), V replaced by its base letter, followed by T;
\* the bare u-diaeresis alone normalises to "v5".
C5_MarkedSyllable ==
    npc = "done" =>
        /\ IsMarkedSyllable(pinyin) =>
               sapi = [i \in DOMAIN pinyin |-> BaseLetter(pinyin[i])] \o <<MarkedTone(pinyin)>>
        /\ pinyin = <<252>> => sapi = Str(<<"v", "5">>)

C5_Witness ==
    /\ npc = "done"
    /\ pinyin = <<120, 105, 232>>
    /\ sapi = Str(<<"x", "i", "e", "4">>)

\* C6: one token per group of the input that holds a letter, in the order of
\* the input, joined by single spaces with no leading or trailing space;
\* groups without a letter give no token.
C6_OneTokenPerLetteredGroup ==
    npc = "done" =>
        LET toks == Tokens(sapi)
            gs == LetteredGroups(pinyin)
        IN /\ Len(toks) = Len(gs)
           /\ \A k \in DOMAIN toks :
                  /\ toks[k] # <<>>
                  /\ TokenLetters(toks[k]) = GroupLetters(gs[k])

C6_Witness ==
    /\ npc = "done"
    /\ pinyin = Str(<<"m", " ", " ", "A">>)
    /\ Tokens(sapi) = <<Str(<<"m">>), Str(<<"a", "5">>)>>

IsToneSetter(c) == MarkIndex(c) # 0 \/ IsDigitChar(c)

\* the tone the characters of one group set, the last one winning; the empty
\* str if none
GroupTone(g) ==
    LET ts == SelectSeq(g, IsToneSetter)
    IN IF ts = <<>> THEN <<>>
       ELSE IF MarkIndex(ts[Len(ts)]) # 0 THEN <<MarkTone(ts[Len(ts)])>>
       ELSE <<ts[Len(ts)]>>

TokenDigits(tok) == SelectSeq(tok, IsDigitChar)

\* C10: the pending tone never carries over from one group to the next: no
\* tone is pending when the loop stands at a letter that opens a group,
\* and the digit of each token is set by its own group alone (the last
\* marked vowel or digit of the group; at most the default when it has none).
C10_NoToneCarriedOver ==
    /\ (npc = "loop" /\ idx \in DOMAIN lower(pinyin) /\ IsLetter(lower(pinyin)[idx])
          /\ (idx = 1 \/ lower(pinyin)[idx - 1] = 32)) => tone = <<>>
    /\ npc = "done" =>
           LET toks == Tokens(sapi)
               gs == LetteredGroups(pinyin)
           IN \A k \in DOMAIN toks :
                  IF GroupTone(gs[k]) # <<>>
                  THEN TokenDigits(toks[k]) = GroupTone(gs[k])
                  ELSE TokenDigits(toks[k]) \in {<<>>, <<53>>}

\* ------------------------------------------------------------------------
\* Properties of build_ssml and synthesize (under Spec)
\* ------------------------------------------------------------------------
\* whether the str t stands in the str s at position i
IsAt(s, t, i) ==
    /\ i + Len(t) - 1 <= Len(s)
    /\ \A k \in DOMAIN t : s[i + k - 1] = t[k]

HasPhoneme(payload) == \E i \in DOMAIN payload : IsAt(payload, PhonemeOpen, i)

\* the payload with the utterance unwrapped inside the voice element
BarePayload(text, voice_id) == SpeakOpen \o voice_id \o VoiceOpenEnd \o text \o VoiceClose

\* the payload with the utterance inside one phoneme element of value ph
PhonemePayload(text, voice_id, ph) ==
    SpeakOpen \o voice_id \o VoiceOpenEnd \o PhonemeOpen \o ph
        \o PhonemeOpenEnd \o text \o PhonemeClose \o VoiceClose

\* the ph value written in a payload: what stands between the first opening
\* of a phoneme element and the next quotation mark (34)
PhValue(payload) ==
    LET a == CHOOSE i \in DOMAIN payload :
                 /\ IsAt(payload, PhonemeOpen, i)
                 /\ \A k \in 1..(i - 1) : ~IsAt(payload, PhonemeOpen, k)
        from == a + Len(PhonemeOpen)
        b == CHOOSE j \in from..Len(payload) :
                 payload[j] = 34 /\ \A k \in from..(j - 1) : payload[k] # 34
    IN SubSeq(payload, from, b - 1)

\* build_ssml has been called
Built == ssml # None

\* a payload has been handed to a synthesizer
Handed == spoken # None

ReportsPhoneme == reply.status_code = 200 /\ reply.body.usedPhoneme

\* C1: with a hint present and a trimmed text of more than 2 characters the
\* hint is ignored (the payload handed over is the bare text, usedPhoneme
\* false); annotation happens only with a hint and a trimmed text of at most
\* 2 characters.
C1_LongTextIgnoresHint ==
    Handed =>
        /\ (Truthy(request.pinyin) /\ Len(strip(request.text)) > 2) =>
               /\ spoken = BarePayload(strip(request.text), VOICES[VoiceKey(request)].id)
               /\ ~used_phoneme
               /\ ~ReportsPhoneme
        /\ (HasPhoneme(spoken) \/ used_phoneme) =>
               (Truthy(request.pinyin) /\ Len(strip(request.text)) <= 2)

\* C7: the empty hint normalises to the empty string, and with an absent or
\* empty hint the payload built, and handed over, holds the utterance
\* unwrapped in the voice element, whatever the length of the text, and
\* usedPhoneme is false.
C7_NoHintNoAnnotation ==
    /\ pinyin_to_sapi(<<>>) = <<>>
    /\ (Built /\ request.pinyin \in {None, <<>>}) =>
           /\ ssml = BarePayload(strip(request.text), VOICES[VoiceKey(request)].id)
           /\ ~HasPhoneme(ssml)
           /\ Handed => spoken = ssml
           /\ ~used_phoneme
           /\ ~ReportsPhoneme

C7_Witness ==
    /\ pc = "done"
    /\ request.pinyin = <<>>
    /\ Len(strip(request.text)) = 3
    /\ Handed
    /\ reply.status_code = 200
    /\ ~reply.body.usedPhoneme

\* C8: with a hint present the payload is one voice element of the given
\* voice id holding one phoneme element around the unmodified text, alphabet
\* "sapi", whose ph value is pinyin_to_sapi(hint), a non-empty sequence of
\* syllable+tone-digit tokens.
C8_PhonemePayload ==
    (Built /\ Truthy(request.pinyin)) =>
        /\ HasPhoneme(ssml)
        /\ ssml = PhonemePayload(strip(request.text), VOICES[VoiceKey(request)].id,
                                 PhValue(ssml))
        /\ PhValue(ssml) = pinyin_to_sapi(request.pinyin)
        /\ PhValue(ssml) # <<>>
        /\ \A k \in DOMAIN Tokens(PhValue(ssml)) :
               IsSyllableWithTone(Tokens(PhValue(ssml))[k])

Blank(text) == strip(text) = <<>>

\* the call never reached the core: no payload was built, no synthesizer
\* created and none handed a payload
CoreNotReached == ~Built /\ ~synthesizer /\ ~Handed

\* C9 as stated: an empty text or a voice key outside the table is answered
\* 400 with no payload built and no synthesizer created or invoked, and a
\* synthesizer is invoked only for a non-empty trimmed text and a voice id of
\* the table (the default key when the voice is absent).
C9_RejectedWith400 ==
    /\ (pc = "done" /\ (Blank(request.text)
                          \/ (request.voice # NoneVoice
                                /\ request.voice[1] \notin DOMAIN VOICES))) =>
           (reply.status_code = 400 /\ CoreNotReached)
    /\ Handed =>
           /\ ~Blank(request.text)
           /\ LET key == IF request.voice = NoneVoice THEN DEFAULT_VOICE
                         ELSE request.voice[1]
              IN key \in DOMAIN VOICES /\ IsAt(spoken, VOICES[key].id, Len(SpeakOpen) + 1)

\* a voice that is None or the empty str
NoVoice(v) == v = NoneVoice \/ v = <<"">>

\* C9 amended: with the credentials configured, an empty text or a non-empty
\* voice key outside the table is answered 400; without credentials every
\* request is answered 500; in both cases no payload is built and no
\* synthesizer created or invoked, and the call ends there.  A synthesizer
\* is created and invoked only with credentials, for a non-empty trimmed
\* text and the voice id of the request's key, the default key standing for
\* an absent or empty one.
C9_RejectedBeforeCore ==
    /\ (pc = "done" /\ ~configured) => (reply.status_code = 500 /\ CoreNotReached)
    /\ (pc = "done" /\ configured
          /\ (Blank(request.text)
                \/ (~NoVoice(request.voice) /\ request.voice[1] \notin DOMAIN VOICES))) =>
           (reply.status_code = 400 /\ CoreNotReached)
    /\ pc = "speaking" => Built
    /\ Handed => (synthesizer /\ spoken = ssml)
    /\ (Built \/ synthesizer) =>
           /\ configured
           /\ ~Blank(request.text)
           /\ LET key == IF NoVoice(request.voice) THEN DEFAULT_VOICE
                         ELSE request.voice[1]
              IN key \in DOMAIN VOICES /\ IsAt(ssml, VOICES[key].id, Len(SpeakOpen) + 1)

C9_Witness ==
    /\ pc = "done"
    /\ configured
    /\ request.voice = <<"alloy">>
    /\ ~Blank(request.text)
    /\ reply.status_code = 400
    /\ CoreNotReached

====
